---- MODULE Spec2Model ----
(***************************************************************************)
(* Contact-form backend (imec-backend).  Four programs live in the source: *)
(*   "contacts" : src/server.js lines 1-145    POST /contacts/             *)
(*   "api"      : src/server.js lines 146-465  POST /api/contact           *)
(*   "part_000" : src/unnamed/part_000         POST /api/contact           *)
(*   "part_001" : src/unnamed/part_001         POST /api/contact           *)
(* Each validates a submission, sends a notification mail and (in "api"    *)
(* and "part_001") an auto-reply, and answers 400, 200 or 500.             *)
(***************************************************************************)
EXTENDS Integers, Sequences, FiniteSets, TLC

VARIABLES
    variant,        \* which of the four programs is running
    env,            \* process.env: SMTP_USER, SMTP_PASS, SMTP_HOST, TO_EMAIL
    main,           \* position of the startup chain initMailer().then().catch()
    transporter,    \* module-level `let transporter`
    isTestAccount,  \* module-level `let isTestAccount = false`
    pc,             \* per request: position of the async POST handler
    body,           \* per request: req.body
    sends,          \* per request: the transporter.sendMail calls it made
    responses,      \* per request: the responses written to res
    overdue,        \* per request: the pending send has waited the 10 s period
    vin,            \* validator harness: the submission handed to validateBody
    vout,           \* validator harness: what validateBody did with it
    exitCode,       \* <<c>> once process.exit(c) was called, <<>> before
    info            \* the body of the latest GET /api/info response, if any

vars == <<variant, env, main, transporter, isTestAccount,
          pc, body, sends, responses, overdue, vin, vout, exitCode, info>>

Variants == {"contacts", "api", "part_000", "part_001"}

\* Number of requests in flight at once.
MaxReq == 2

Requests == 1..MaxReq

-----------------------------------------------------------------------------
(* JSON values as they arrive in req.body.  A string is a tuple of          *)
(* one-character strings so that trim and the regular expressions can be    *)
(* computed on it.                                                          *)

Undefined == [t |-> "undefined"]
Null == [t |-> "null"]
Str(s) == [t |-> "string", v |-> s]
Num(n) == [t |-> "number", v |-> n]
Bool(b) == [t |-> "boolean", v |-> b]
Obj == [t |-> "object"]
Arr == [t |-> "array"]

\* JavaScript ToBoolean: undefined, null, "", 0 and false are falsy.
Falsy(x) ==
    \/ x.t \in {"undefined", "null"}
    \/ x.t = "string" /\ x.v = <<>>
    \/ x.t = "number" /\ x.v = 0
    \/ x.t = "boolean" /\ x.v = FALSE

\* Only a string has String.prototype.trim / replace; calling them on any
\* other value is a TypeError.
IsString(x) == x.t = "string"

WhiteSpace == {" ", "\n", "\t"}
Digits == {"0", "1", "2", "3", "4", "5", "6", "7", "8", "9"}

RECURSIVE TrimLeft(_)
TrimLeft(s) ==
    IF s # <<>> /\ Head(s) \in WhiteSpace THEN TrimLeft(Tail(s)) ELSE s

RECURSIVE TrimRight(_)
TrimRight(s) ==
    IF s # <<>> /\ s[Len(s)] \in WhiteSpace
    THEN TrimRight(SubSeq(s, 1, Len(s) - 1))
    ELSE s

\* String.prototype.trim
Trim(s) == TrimRight(TrimLeft(s))

\* [^\s@]+ : a non-empty run without white space and without "@"
PlainRun(s, from, to) ==
    /\ from <= to
    /\ \A k \in from..to : s[k] \notin WhiteSpace /\ s[k] # "@"

\* emailRe = /^[^\s@]+@[^\s@]+\.[^\s@]+$/
emailRe(s) ==
    \E i, j \in 1..Len(s) :
        /\ i < j
        /\ s[i] = "@"
        /\ s[j] = "."
        /\ PlainRun(s, 1, i - 1)
        /\ PlainRun(s, i + 1, j - 1)
        /\ PlainRun(s, j + 1, Len(s))

\* phoneRe = /^\+\d{1,3}[0-9]{7,}$/
phoneRe(s) ==
    /\ Len(s) >= 1
    /\ s[1] = "+"
    /\ \A k \in 2..Len(s) : s[k] \in Digits
    /\ \E cc \in 1..3 : (Len(s) - 1) - cc >= 7

-----------------------------------------------------------------------------
(* validateBody.  Each check is "pass", "fail" (the if-branch returns the   *)
(* rejection) or "throw" (the condition itself raises a TypeError).         *)

\* if (!name || name.trim().length < min)
nameCheck(x, min) ==
    IF Falsy(x) THEN "fail"
    ELSE IF ~IsString(x) THEN "throw"
    ELSE IF Len(Trim(x.v)) < min THEN "fail"
    ELSE "pass"

\* if (!email || !emailRe.test(email.trim()))
emailCheck(x) ==
    IF Falsy(x) THEN "fail"
    ELSE IF ~IsString(x) THEN "throw"
    ELSE IF ~emailRe(Trim(x.v)) THEN "fail"
    ELSE "pass"

\* if (!phone || !phoneRe.test(phone.trim()))
phoneCheck(x) ==
    IF Falsy(x) THEN "fail"
    ELSE IF ~IsString(x) THEN "throw"
    ELSE IF ~phoneRe(Trim(x.v)) THEN "fail"
    ELSE "pass"

\* if (!interest || interest.trim() === "")
interestCheck(x) ==
    IF Falsy(x) THEN "fail"
    ELSE IF ~IsString(x) THEN "throw"
    ELSE IF Trim(x.v) = <<>> THEN "fail"
    ELSE "pass"

\* if (!message || message.trim() === '')
messageCheck(x) ==
    IF Falsy(x) THEN "fail"
    ELSE IF ~IsString(x) THEN "throw"
    ELSE IF Trim(x.v) = <<>> THEN "fail"
    ELSE "pass"

Threw == [threw |-> "TypeError"]
Accepted == [ok |-> TRUE]

\* Runs the checks in order; the first that does not pass decides.
RECURSIVE FirstFailure(_, _)
FirstFailure(checks, rejections) ==
    IF checks = <<>> THEN Accepted
    ELSE IF Head(checks) = "throw" THEN Threw
    ELSE IF Head(checks) = "fail" THEN Head(rejections)
    ELSE FirstFailure(Tail(checks), Tail(rejections))

MinNameContacts == 3
MinNameApi == 2
MinName000 == 3
MinName001 == 2

\* src/server.js 40-48: no message check, rejections carry only the field
validateBodyContacts(b) ==
    FirstFailure(
        <<nameCheck(b.name, MinNameContacts), emailCheck(b.email),
          phoneCheck(b.phone), interestCheck(b.interest)>>,
        <<[ok |-> FALSE, field |-> "name"],
          [ok |-> FALSE, field |-> "email"],
          [ok |-> FALSE, field |-> "phone"],
          [ok |-> FALSE, field |-> "interest"]>>)

\* src/server.js 172-192: message is destructured and never checked
validateBodyApi(b) ==
    FirstFailure(
        <<nameCheck(b.name, MinNameApi), emailCheck(b.email),
          phoneCheck(b.phone), interestCheck(b.interest)>>,
        <<[ok |-> FALSE, field |-> "name",
           message |-> "Name must be at least 2 characters"],
          [ok |-> FALSE, field |-> "email",
           message |-> "Invalid email format"],
          [ok |-> FALSE, field |-> "phone",
           message |-> "Phone must be in international format (e.g., +1234567890)"],
          [ok |-> FALSE, field |-> "interest",
           message |-> "Interest is required"]>>)

\* src/unnamed/part_000 28-37: message is required and non-blank
validateBody000(b) ==
    FirstFailure(
        <<nameCheck(b.name, MinName000), emailCheck(b.email),
          phoneCheck(b.phone), interestCheck(b.interest),
          messageCheck(b.message)>>,
        <<[ok |-> FALSE, field |-> "name"],
          [ok |-> FALSE, field |-> "email"],
          [ok |-> FALSE, field |-> "phone"],
          [ok |-> FALSE, field |-> "interest"],
          [ok |-> FALSE, field |-> "message"]>>)

\* src/unnamed/part_001 27-47: message is destructured and never checked
validateBody001(b) ==
    FirstFailure(
        <<nameCheck(b.name, MinName001), emailCheck(b.email),
          phoneCheck(b.phone), interestCheck(b.interest)>>,
        <<[ok |-> FALSE, field |-> "name",
           message |-> "Name must be at least 2 characters"],
          [ok |-> FALSE, field |-> "email",
           message |-> "Invalid email format"],
          [ok |-> FALSE, field |-> "phone",
           message |-> "Phone must be in international format (e.g., +1234567890)"],
          [ok |-> FALSE, field |-> "interest",
           message |-> "Interest is required"]>>)

\* The validateBody of the running program.
validateBody(v, b) ==
    CASE v = "contacts" -> validateBodyContacts(b)
      [] v = "api"      -> validateBodyApi(b)
      [] v = "part_000" -> validateBody000(b)
      [] v = "part_001" -> validateBody001(b)

-----------------------------------------------------------------------------
(* Configuration and the mail transport.                                    *)

\* An environment variable is a string; <<>> stands for unset (and for the
\* empty string, which `&&` and `||` treat alike).
Unset == <<>>

\* a || b on strings
Or(a, b) == IF a # Unset THEN a ELSE b

\* The 10 s of connectionTimeout / greetingTimeout / socketTimeout.
TimeoutMs == 10000

NoTransporter == [kind |-> "unset"]

\* createTransport({host, port, secure, auth}) without timeout options
SmtpTransport == [kind |-> "smtp"]

\* createTransport({..., connectionTimeout, greetingTimeout, socketTimeout})
SmtpTransportWithTimeouts ==
    [kind |-> "smtp", connectionTimeout |-> TimeoutMs,
     greetingTimeout |-> TimeoutMs, socketTimeout |-> TimeoutMs]

\* createTransport({host: "smtp.ethereal.email", port: 587, secure: false, auth})
EtherealTransport == [kind |-> "ethereal"]

\* Whether the transport was constructed with the timeout options.
HasTimeouts(t) ==
    {"connectionTimeout", "greetingTimeout", "socketTimeout"} \subseteq DOMAIN t

\* The condition of initMailer's if: all variants need SMTP_USER and
\* SMTP_PASS; all but "contacts" also need SMTP_HOST.
HasCredentials(v, e) ==
    /\ e.SMTP_USER # Unset
    /\ e.SMTP_PASS # Unset
    /\ (v # "contacts" => e.SMTP_HOST # Unset)

\* The transport the production branch of initMailer constructs.
ProductionTransport(v) ==
    IF v \in {"api", "part_001"} THEN SmtpTransportWithTimeouts
    ELSE SmtpTransport

\* mailOptions.to
Recipient(v, e) ==
    CASE v = "contacts" -> Or(e.TO_EMAIL, e.SMTP_USER)
      [] v = "part_000" -> Or(e.TO_EMAIL, Or(e.SMTP_USER, <<"test@ethereal.email">>))
      [] OTHER          -> Or(e.TO_EMAIL, Or(e.SMTP_USER, <<"imec@imec-school.com">>))

\* Whether the handler sends an auto-reply after the notification.
HasAutoReply(v) == v \in {"api", "part_001"}

-----------------------------------------------------------------------------
(* Building the two messages.                                               *)

\* message.replace(/\n/g, "<br>")
RECURSIVE ReplaceNewlines(_)
ReplaceNewlines(s) ==
    IF s = <<>> THEN <<>>
    ELSE (IF Head(s) = "\n" THEN <<"<br>">> ELSE <<Head(s)>>)
         \o ReplaceNewlines(Tail(s))

\* `${x}` in a template literal
Render(x) == IF IsString(x) THEN x.v ELSE <<x.t>>

\* Building the notification raises a TypeError where the code calls
\* message.replace on a value that is not a string.
BuildThrows(v, b) == v \in {"api", "part_001"} /\ ~IsString(b.message)

\* The message part of the notification's html.
HtmlMessage(v, b) ==
    CASE v = "contacts" ->
            IF Falsy(b.message) THEN <<"No message provided">>
            ELSE Render(b.message)
      [] v = "part_000" -> Render(b.message)
      [] OTHER          -> ReplaceNewlines(b.message.v)

NotificationSubject(v, b) ==
    CASE v = "contacts" -> <<"New Contact Form - ">> \o Render(b.name)
      [] v = "part_000" -> <<"New contact from website - ">> \o Render(b.name)
      [] OTHER          -> <<"New Contact from IMEC Website - ">> \o Render(b.name)

\* mailOptions
Notification(v, e, b) ==
    [kind |-> "notification", to |-> Recipient(v, e),
     subject |-> NotificationSubject(v, b),
     html |-> HtmlMessage(v, b), status |-> "pending"]

\* Faulty selection: the language is trimmed and lower-cased before the match.
AutoReplyLanguageLoose(v, b) ==
    IF v # "part_001" \/ ~IsString(b.language) THEN "en"
    ELSE IF Trim(b.language.v) \in {<<"a", "z">>, <<"A", "Z">>} THEN "az"
    ELSE IF Trim(b.language.v) \in {<<"r", "u">>, <<"R", "U">>} THEN "ru"
    ELSE "en"

\* switch (language) of part_001; "api" has the English text only.
AutoReplyLanguage(v, b) ==
    IF v = "part_001" /\ b.language = Str(<<"a", "z">>) THEN "az"
    ELSE IF v = "part_001" /\ b.language = Str(<<"r", "u">>) THEN "ru"
    ELSE "en"

\* The subject of each template (the Azerbaijani and Russian ones are written
\* here in Latin letters).
AutoReplySubject(lang) ==
    CASE lang = "az" -> <<"IMEC ile elaqe saxladiginiz ucun tesekkurler!">>
      [] lang = "ru" -> <<"Spasibo za obrashchenie v IMEC!">>
      [] OTHER       -> <<"Thank you for contacting IMEC!">>

\* autoReplyOptions
AutoReply(v, b) ==
    [kind |-> "autoReply", to |-> b.email.v,
     subject |-> AutoReplySubject(AutoReplyLanguage(v, b)),
     template |-> AutoReplyLanguage(v, b), status |-> "pending"]

-----------------------------------------------------------------------------
(* Responses.                                                               *)

\* res.status(400).json({...})
BadRequest(v, rejection) ==
    IF v \in {"api", "part_001"}
    THEN [status |-> 400, ok |-> FALSE, error |-> "validation_failed",
          field |-> rejection.field, message |-> rejection.message]
    ELSE [status |-> 400, ok |-> FALSE, error |-> "validation_failed",
          field |-> rejection.field]

\* res.status(500).json({...}) of the catch block
ServerError(v) ==
    CASE v = "contacts" ->
            [status |-> 500, ok |-> FALSE, error |-> "internal_error",
             message |-> "Failed to send email"]
      [] v = "part_000" ->
            [status |-> 500, ok |-> FALSE, error |-> "internal"]
      [] OTHER ->
            [status |-> 500, ok |-> FALSE, error |-> "internal_server_error",
             message |-> "Failed to send email. Please try again later."]

\* Faulty handler: the preview URL is returned whatever the transport.
PreviewUrlAlways(test, mail) ==
    Str(<<"https://ethereal.email/message/", mail.kind>>)

\* isTestAccount ? nodemailer.getTestMessageUrl(info) : null
PreviewUrl(test, mail) ==
    IF test THEN Str(<<"https://ethereal.email/message/", mail.kind>>) ELSE Null

\* res.json({ok: true, ...}); the timestamp of the body is left out
Success(v, test, mails) ==
    CASE v = "contacts" ->
            [status |-> 200, ok |-> TRUE, message |-> "Email sent successfully"]
      [] v = "part_000" ->
            [status |-> 200, ok |-> TRUE, message |-> "Email sent",
             previewUrl |-> PreviewUrl(test, mails[1])]
      [] OTHER ->
            [status |-> 200, ok |-> TRUE, message |-> "Email sent successfully",
             previewUrl |-> PreviewUrl(test, mails[1]),
             autoReplyPreviewUrl |-> PreviewUrl(test, mails[2])]

-----------------------------------------------------------------------------
(* The POST handler, cut at its awaits.  Each piece yields the handler's    *)
(* next position, the sendMail calls it makes and the responses it writes.  *)

\* Faulty handler: the 400 is written without `return`, so a rejected
\* submission goes on to the notification.
HandlerEntryNoReturn(v, e, b) ==
    LET val == validateBody(v, b) IN
    IF val = Threw \/ BuildThrows(v, b)
    THEN [pc |-> "done", sends |-> <<>>, responses |-> <<ServerError(v)>>]
    ELSE [pc |-> "awaitNotification", sends |-> <<Notification(v, e, b)>>,
          responses |-> IF val.ok THEN <<>> ELSE <<BadRequest(v, val)>>]

\* Faulty handler: the notification's sendMail is not awaited, so the
\* auto-reply is handed to the transport while the notification is pending.
HandlerEntryNoAwait(v, e, b) ==
    LET val == validateBody(v, b) IN
    IF val = Threw \/ BuildThrows(v, b)
    THEN [pc |-> "done", sends |-> <<>>, responses |-> <<ServerError(v)>>]
    ELSE IF ~val.ok
    THEN [pc |-> "done", sends |-> <<>>, responses |-> <<BadRequest(v, val)>>]
    ELSE IF HasAutoReply(v)
    THEN [pc |-> "awaitAutoReply",
          sends |-> <<Notification(v, e, b), AutoReply(v, b)>>,
          responses |-> <<>>]
    ELSE [pc |-> "awaitNotification", sends |-> <<Notification(v, e, b)>>,
          responses |-> <<>>]

\* Faulty handler: no try/catch, so a TypeError leaves the request unanswered.
HandlerEntryUncaught(v, e, b) ==
    LET val == validateBody(v, b) IN
    IF val = Threw \/ (val.ok /\ BuildThrows(v, b))
    THEN [pc |-> "done", sends |-> <<>>, responses |-> <<>>]
    ELSE IF ~val.ok
    THEN [pc |-> "done", sends |-> <<>>, responses |-> <<BadRequest(v, val)>>]
    ELSE [pc |-> "awaitNotification", sends |-> <<Notification(v, e, b)>>,
          responses |-> <<>>]

\* From the destructuring of req.body to the first await (or to a return).
HandlerEntry(v, e, b) ==
    LET val == validateBody(v, b) IN
    IF val = Threw
    THEN [pc |-> "done", sends |-> <<>>, responses |-> <<ServerError(v)>>]
    ELSE IF ~val.ok
    THEN [pc |-> "done", sends |-> <<>>, responses |-> <<BadRequest(v, val)>>]
    ELSE IF BuildThrows(v, b)
    THEN [pc |-> "done", sends |-> <<>>, responses |-> <<ServerError(v)>>]
    ELSE [pc |-> "awaitNotification", sends |-> <<Notification(v, e, b)>>,
          responses |-> <<>>]

\* The sends of a request with the pending one settled.
Settle(mails, outcome) ==
    [mails EXCEPT ![Len(mails)].status = outcome]

\* Faulty handler: 200 is answered as soon as the notification is sent, the
\* auto-reply still being in flight.
AfterNotificationEarlySuccess(v, b, test, mails) ==
    IF HasAutoReply(v)
    THEN [pc |-> "awaitAutoReply",
          sends |-> Settle(mails, "ok") \o <<AutoReply(v, b)>>,
          responses |-> <<Success(v, test, Settle(mails, "ok") \o <<AutoReply(v, b)>>)>>]
    ELSE [pc |-> "done", sends |-> Settle(mails, "ok"),
          responses |-> <<Success(v, test, Settle(mails, "ok"))>>]

\* `await transporter.sendMail(mailOptions)` resolved: the auto-reply variants
\* go on to the second send, the others answer 200.
AfterNotification(v, b, test, mails) ==
    IF HasAutoReply(v)
    THEN [pc |-> "awaitAutoReply",
          sends |-> Settle(mails, "ok") \o <<AutoReply(v, b)>>,
          responses |-> <<>>]
    ELSE [pc |-> "done", sends |-> Settle(mails, "ok"),
          responses |-> <<Success(v, test, Settle(mails, "ok"))>>]

\* `await transporter.sendMail(autoReplyOptions)` resolved.
AfterAutoReply(v, test, mails) ==
    [pc |-> "done", sends |-> Settle(mails, "ok"),
     responses |-> <<Success(v, test, Settle(mails, "ok"))>>]

\* Faulty handler: the 500 body carries the code of the error caught.
AfterRejectionLeak(v, mails, err) ==
    [pc |-> "done", sends |-> Settle(mails, err),
     responses |-> <<[ServerError(v) EXCEPT !.error = err]>>]

\* Faulty handler: a failed auto-reply takes the notification back.
AfterRejectionRollback(v, mails, err) ==
    [pc |-> "done",
     sends |-> IF Len(mails) = 2
               THEN [Settle(mails, err) EXCEPT ![1].status = "recalled"]
               ELSE Settle(mails, err),
     responses |-> <<ServerError(v)>>]

\* Faulty handler: a failed send is attempted once more before giving up.
AfterRejectionRetry(v, mails, err) ==
    IF Len(mails) = 0 \/ \E i \in DOMAIN mails : mails[i].status = err
    THEN [pc |-> "done", sends |-> Settle(mails, err),
          responses |-> <<ServerError(v)>>]
    ELSE [pc |-> IF mails[Len(mails)].kind = "notification"
                 THEN "awaitNotification" ELSE "awaitAutoReply",
          sends |-> Settle(mails, err) \o <<mails[Len(mails)]>>,
          responses |-> <<>>]

\* An awaited sendMail rejected with err: the catch block logs err and
\* answers 500.
AfterRejection(v, mails, err) ==
    [pc |-> "done", sends |-> Settle(mails, err),
     responses |-> <<ServerError(v)>>]

\* Request r moves on as `step` says; what it wrote to res is added to what
\* it had written.
Continue(r, step) ==
    /\ pc' = [pc EXCEPT ![r] = step.pc]
    /\ sends' = [sends EXCEPT ![r] = step.sends]
    /\ responses' = [responses EXCEPT ![r] = @ \o step.responses]
    /\ overdue' = [overdue EXCEPT ![r] = FALSE]

Pending(r) == pc[r] \in {"awaitNotification", "awaitAutoReply"}

\* The errors a sendMail rejects with, other than a timeout.
TransportErrors == {"ECONNECTION", "EAUTH"}

\* A sendMail call that was rejected.
Failed(mail) == mail.status \in TransportErrors \cup {"ETIMEDOUT"}

-----------------------------------------------------------------------------
(* Startup: initMailer().then(listen).catch(exit).                          *)

\* initMailer up to its await (or its throw, in "contacts").
InitMailerBegin ==
    /\ main = "start"
    /\ IF HasCredentials(variant, env)
       THEN /\ transporter' = ProductionTransport(variant)
            /\ main' = "verify"
       ELSE IF variant = "contacts"
       THEN /\ main' = "rejected"
            /\ UNCHANGED transporter
       ELSE /\ main' = "createTestAccount"
            /\ UNCHANGED transporter
    /\ UNCHANGED <<variant, env, isTestAccount, pc, body, sends, responses,
                   overdue, vin, vout, exitCode, info>>

\* await transporter.verify() resolved
VerifyResolved ==
    /\ main = "verify"
    /\ main' = "resolved"
    /\ UNCHANGED <<variant, env, transporter, isTestAccount, pc, body, sends,
                   responses, overdue, vin, vout, exitCode, info>>

\* await transporter.verify() rejected
VerifyRejected ==
    /\ main = "verify"
    /\ main' = "rejected"
    /\ UNCHANGED <<variant, env, transporter, isTestAccount, pc, body, sends,
                   responses, overdue, vin, vout, exitCode, info>>

\* await nodemailer.createTestAccount() resolved
TestAccountResolved ==
    /\ main = "createTestAccount"
    /\ transporter' = EtherealTransport
    /\ isTestAccount' = TRUE
    /\ main' = "resolved"
    /\ UNCHANGED <<variant, env, pc, body, sends, responses, overdue, vin, vout, exitCode, info>>

\* await nodemailer.createTestAccount() rejected
TestAccountRejected ==
    /\ main = "createTestAccount"
    /\ main' = "rejected"
    /\ UNCHANGED <<variant, env, transporter, isTestAccount, pc, body, sends,
                   responses, overdue, vin, vout, exitCode, info>>

\* Faulty startup: app.listen is called whether or not initMailer succeeded.
ListenAnyway ==
    /\ main \in {"resolved", "rejected"}
    /\ main' = "listening"
    /\ UNCHANGED <<variant, env, transporter, isTestAccount, pc, body, sends,
                   responses, overdue, vin, vout, exitCode, info>>

\* .then(() => app.listen(...))
Listen ==
    /\ main = "resolved"
    /\ main' = "listening"
    /\ UNCHANGED <<variant, env, transporter, isTestAccount, pc, body, sends,
                   responses, overdue, vin, vout, exitCode, info>>

\* .catch(() => process.exit(1))
Exit ==
    /\ main = "rejected"
    /\ main' = "exited"
    /\ exitCode' = <<1>>
    /\ UNCHANGED <<variant, env, transporter, isTestAccount, pc, body, sends,
                   responses, overdue, vin, vout, info>>

-----------------------------------------------------------------------------
(* Requests.  Request ids are arrival numbers.                              *)

\* Faulty handler: every POST sets the mailer up again, as the test transport.
ReceiveReconfigures(r, b) ==
    /\ main = "listening"
    /\ pc[r] = "idle"
    /\ r > 1 => pc[r - 1] # "idle"
    /\ body' = [body EXCEPT ![r] = b]
    /\ Continue(r, HandlerEntry(variant, env, b))
    /\ transporter' = EtherealTransport
    /\ isTestAccount' = TRUE
    /\ UNCHANGED <<variant, env, main, vin, vout, exitCode, info>>

\* A POST arrives with body b; the handler runs to its first await.
Receive(r, b) ==
    /\ main = "listening"
    /\ pc[r] = "idle"
    /\ r > 1 => pc[r - 1] # "idle"
    /\ body' = [body EXCEPT ![r] = b]
    /\ Continue(r, HandlerEntry(variant, env, b))
    /\ UNCHANGED <<variant, env, main, transporter, isTestAccount, vin, vout, exitCode, info>>

\* The notification's sendMail resolves.
NotificationResolved(r) ==
    /\ pc[r] = "awaitNotification"
    /\ Continue(r, AfterNotification(variant, body[r], isTestAccount, sends[r]))
    /\ UNCHANGED <<variant, env, main, transporter, isTestAccount, body, vin, vout, exitCode, info>>

\* The auto-reply's sendMail resolves.
AutoReplyResolved(r) ==
    /\ pc[r] = "awaitAutoReply"
    /\ Continue(r, AfterAutoReply(variant, isTestAccount, sends[r]))
    /\ UNCHANGED <<variant, env, main, transporter, isTestAccount, body, vin, vout, exitCode, info>>

\* The pending sendMail rejects with a transport error.
SendRejected(r, err) ==
    /\ Pending(r)
    /\ Continue(r, AfterRejection(variant, sends[r], err))
    /\ UNCHANGED <<variant, env, main, transporter, isTestAccount, body, vin, vout, exitCode, info>>

\* The mail server stays silent for the 10 s period and the transport was
\* built with the timeout options: the pending sendMail rejects.
TimeoutFires(r) ==
    /\ Pending(r)
    /\ HasTimeouts(transporter)
    /\ Continue(r, AfterRejection(variant, sends[r], "ETIMEDOUT"))
    /\ UNCHANGED <<variant, env, main, transporter, isTestAccount, body, vin, vout, exitCode, info>>

\* The mail server stays silent for the 10 s period and the transport has no
\* timeout options: the send is still pending.
StillWaiting(r) ==
    /\ Pending(r)
    /\ ~HasTimeouts(transporter)
    /\ ~overdue[r]
    /\ overdue' = [overdue EXCEPT ![r] = TRUE]
    /\ UNCHANGED <<variant, env, main, transporter, isTestAccount, pc, body,
                   sends, responses, vin, vout, exitCode, info>>

\* res.json({...}) of GET /api/info; the endpoints list is left out
InfoResponse(test) ==
    [ok |-> TRUE, message |-> "IMEC Backend API Server", version |-> "1.0.0",
     mailer |-> IF test THEN "test" ELSE "production"]

\* GET /api/info ("api" and "part_001" only)
GetInfo ==
    /\ main = "listening"
    /\ variant \in {"api", "part_001"}
    /\ info' = <<InfoResponse(isTestAccount)>>
    /\ UNCHANGED <<variant, env, main, transporter, isTestAccount, pc, body,
                   sends, responses, overdue, vin, vout, exitCode>>

\* required_fields.message of GET /api/contact: "string (min 10 chars)"
MinMessageChars == 10

\* res.json({...}) of GET /api/contact: what it says each field must be
RequiredFields ==
    [name |-> "string (min 2 chars)", email |-> "valid email",
     phone |-> "international format (e.g., +1234567890)",
     interest |-> "string", message |-> "string (min 10 chars)"]

-----------------------------------------------------------------------------
(* Inputs.                                                                  *)

Ada == <<"A", "d", "a">>
Al == <<"A", "l">>
GoodEmail == <<"a", "@", "b", ".", "c">>
GoodPhone == <<"+", "1", "4", "1", "5", "5", "5", "5", "0", "1">>
ShortPhone == <<"1", "2", "3", "4", "5", "6">>
GroupLessons == <<"G", "L">>
CallMe == <<"H", "i", "\n", "y", "o", "u">>

Submission(n, e, p, i, m, l) ==
    [name |-> n, email |-> e, phone |-> p, interest |-> i, message |-> m,
     language |-> l]

NoBody == Submission(Undefined, Undefined, Undefined, Undefined, Undefined, Undefined)

\* The submissions the requests carry.
Submissions ==
    { Submission(Str(Ada), Str(GoodEmail), Str(GoodPhone), Str(GroupLessons),
                 Str(CallMe), Undefined),
      Submission(Str(Ada), Str(GoodEmail), Str(GoodPhone), Str(GroupLessons),
                 Undefined, Undefined),
      Submission(Str(Ada), Str(GoodEmail), Str(GoodPhone), Str(GroupLessons),
                 Str(<<>>), Str(<<"r", "u">>)),
      Submission(Str(Al), Str(GoodEmail), Str(GoodPhone), Str(GroupLessons),
                 Str(CallMe), Str(<<"a", "z">>)),
      Submission(Str(Ada), Str(GoodEmail), Str(ShortPhone), Str(GroupLessons),
                 Str(CallMe), Undefined),
      Submission(Num(123), Str(GoodEmail), Str(GoodPhone), Str(GroupLessons),
                 Str(CallMe), Undefined) }

SmtpUser == <<"smtp-user@imec-school.com">>
Secret == <<"secret">>
Host == <<"smtp.hostinger.com">>
Admin == <<"admin@imec-school.com">>

Env(u, p, h, t) == [SMTP_USER |-> u, SMTP_PASS |-> p, SMTP_HOST |-> h, TO_EMAIL |-> t]

\* The environments the process is started in.
Environments ==
    { Env(SmtpUser, Secret, Host, Admin),
      Env(SmtpUser, Secret, Host, Unset),
      Env(SmtpUser, Secret, Unset, Admin),
      Env(SmtpUser, Unset, Unset, Unset),
      Env(Unset, Unset, Unset, Admin),
      Env(Unset, Unset, Unset, Unset) }

\* The values of each field handed to validateBody on its own.
NameValues ==
    { Undefined, Str(<<>>), Str(<<" ">>), Str(Al), Str(<<" ", "A", " ">>),
      Str(<<" ", "A", "d", "a", "\n">>), Num(0), Num(7), Bool(TRUE), Arr }

EmailValues ==
    { Undefined, Str(<<>>), Str(<<" ">>), Str(GoodEmail),
      Str(<<" ">> \o GoodEmail \o <<"\n">>), Str(<<"a", "@", "b">>),
      Str(<<"a", " ", "@", "b", ".", "c">>), Num(7), Obj }

PhoneValues ==
    { Undefined, Str(<<>>), Str(GoodPhone), Str(ShortPhone),
      Str(<<"+", "1", "2", "3", "4", "5", "6", "7">>),
      Str(<<"+", "1", "2", "3", "4", "5", "6", "7", "8">>),
      Str(<<"+", "1", "-", "3", "4", "5", "6", "7", "8", "9">>),
      Num(7), Bool(FALSE) }

InterestValues ==
    { Undefined, Str(<<>>), Str(<<" ">>), Str(GroupLessons), Num(7), Arr }

MessageValues ==
    { Undefined, Null, Str(<<>>), Str(<<"\n">>), Str(CallMe), Num(7) }

ValidatorInputs ==
    { Submission(n, e, p, i, m, Undefined) :
        n \in NameValues, e \in EmailValues, p \in PhoneValues,
        i \in InterestValues, m \in MessageValues }

NotRun == [run |-> FALSE]

-----------------------------------------------------------------------------
(* The server.                                                              *)

Init ==
    /\ variant \in Variants
    /\ env \in Environments
    /\ main = "start"
    /\ transporter = NoTransporter
    /\ isTestAccount = FALSE
    /\ pc = [r \in Requests |-> "idle"]
    /\ body = [r \in Requests |-> NoBody]
    /\ sends = [r \in Requests |-> <<>>]
    /\ responses = [r \in Requests |-> <<>>]
    /\ overdue = [r \in Requests |-> FALSE]
    /\ vin = NoBody
    /\ vout = NotRun
    /\ exitCode = <<>>
    /\ info = <<>>

Next ==
    \/ InitMailerBegin
    \/ VerifyResolved
    \/ VerifyRejected
    \/ TestAccountResolved
    \/ TestAccountRejected
    \/ Listen
    \/ Exit
    \/ \E r \in Requests, b \in Submissions : Receive(r, b)
    \/ \E r \in Requests : NotificationResolved(r)
    \/ \E r \in Requests : AutoReplyResolved(r)
    \/ \E r \in Requests, err \in TransportErrors : SendRejected(r, err)
    \/ \E r \in Requests : TimeoutFires(r)
    \/ \E r \in Requests : StillWaiting(r)
    \/ GetInfo

Spec == Init /\ [][Next]_vars

-----------------------------------------------------------------------------
(* validateBody on its own: one submission, validated once, together with   *)
(* what the handler does with it before its first await.                    *)

InitValidator ==
    /\ variant \in Variants
    /\ env = Env(SmtpUser, Secret, Host, Admin)
    /\ main = "start"
    /\ transporter = NoTransporter
    /\ isTestAccount = FALSE
    /\ pc = [r \in Requests |-> "idle"]
    /\ body = [r \in Requests |-> NoBody]
    /\ sends = [r \in Requests |-> <<>>]
    /\ responses = [r \in Requests |-> <<>>]
    /\ overdue = [r \in Requests |-> FALSE]
    /\ vin \in ValidatorInputs
    /\ vout = NotRun
    /\ exitCode = <<>>
    /\ info = <<>>

RunValidator ==
    /\ ~vout.run
    /\ vout' = [run |-> TRUE, result |-> validateBody(variant, vin),
                entry |-> HandlerEntry(variant, env, vin)]
    /\ UNCHANGED <<variant, env, main, transporter, isTestAccount, pc, body,
                   sends, responses, overdue, vin, exitCode, info>>

NextValidator == RunValidator

SpecValidator == InitValidator /\ [][NextValidator]_vars

-----------------------------------------------------------------------------
(* Properties.                                                              *)

\* validateBody returned a rejection.
Rejected(val) == "ok" \in DOMAIN val /\ ~val.ok

Arrived(r) == pc[r] # "idle"

\* The number of sendMail calls of one kind a request made.
SendCount(r, kind) == Cardinality({i \in DOMAIN sends[r] : sends[r][i].kind = kind})

\* C1: a submission that validateBody rejects is answered 400 with error
\* "validation_failed", and no sendMail call is made for it, in every variant.
C1_RejectedNeverSends ==
    \A r \in Requests :
        (Arrived(r) /\ Rejected(validateBody(variant, body[r]))) =>
            /\ sends[r] = <<>>
            /\ Len(responses[r]) = 1
            /\ responses[r][1].status = 400
            /\ responses[r][1].error = "validation_failed"

C1_Witness ==
    \E r \in Requests :
        /\ pc[r] = "done"
        /\ Rejected(validateBody(variant, body[r]))
        /\ responses[r][1].status = 400
        /\ variant = "contacts"

\* C2: in the auto-reply variants, a submission that validateBody accepts and
\* none of whose sendMail calls fails is answered 200 {ok: true} after exactly
\* two sendMail calls: the notification to the configured recipient and the
\* auto-reply to the submitter's email; an absent or empty message included.
C2_AcceptedSendsTwice ==
    \A r \in Requests :
        ( /\ HasAutoReply(variant)
          /\ pc[r] = "done"
          /\ validateBody(variant, body[r]) = Accepted
          /\ \A i \in DOMAIN sends[r] : ~Failed(sends[r][i]) ) =>
            /\ Len(responses[r]) = 1
            /\ responses[r][1].status = 200
            /\ responses[r][1].ok
            /\ Len(sends[r]) = 2
            /\ sends[r][1].kind = "notification"
            /\ sends[r][1].to = Recipient(variant, env)
            /\ sends[r][2].kind = "autoReply"
            /\ sends[r][2].to = body[r].email.v

\* C3: within a request the auto-reply is handed to the transport only after
\* the notification's sendMail resolved; when the notification fails the
\* request is answered 500 and makes no auto-reply call, whatever the other
\* requests in flight do.
C3_NotificationBeforeAutoReply ==
    \A r \in Requests :
        /\ (\E i \in DOMAIN sends[r] : sends[r][i].kind = "autoReply") =>
              /\ Len(sends[r]) = 2
              /\ sends[r][1].kind = "notification"
              /\ sends[r][1].status = "ok"
              /\ sends[r][2].kind = "autoReply"
        /\ (Len(sends[r]) >= 1 /\ Failed(sends[r][1])) =>
              /\ Len(sends[r]) = 1
              /\ pc[r] = "done"
              /\ Len(responses[r]) = 1
              /\ responses[r][1].status = 500

C3_Witness ==
    /\ variant = "part_001"
    /\ Len(sends[1]) = 1 /\ Failed(sends[1][1]) /\ pc[1] = "done"
    /\ Len(sends[2]) = 2 /\ sends[2][2].kind = "autoReply"

\* The fields validateBody is handed, in the order it checks them.
FieldOrder == <<"name", "email", "phone", "interest", "message">>

MinName(v) ==
    CASE v = "contacts" -> MinNameContacts
      [] v = "api"      -> MinNameApi
      [] v = "part_000" -> MinName000
      [] v = "part_001" -> MinName001

\* A field's value is invalid by the rule stated for it: name a string of at
\* least the minimum length once trimmed, email and phone strings of the
\* given shape once trimmed, interest a non-blank string, and message a
\* non-blank string where the variant requires one (part_000).
Invalid(v, f, x) ==
    CASE f = "name"     -> ~(IsString(x) /\ Len(Trim(x.v)) >= MinName(v))
      [] f = "email"    -> ~(IsString(x) /\ emailRe(Trim(x.v)))
      [] f = "phone"    -> ~(IsString(x) /\ phoneRe(Trim(x.v)))
      [] f = "interest" -> ~(IsString(x) /\ Trim(x.v) # <<>>)
      [] f = "message"  -> v = "part_000" /\ ~(IsString(x) /\ Trim(x.v) # <<>>)

InvalidFields(v, b) == {i \in DOMAIN FieldOrder : Invalid(v, FieldOrder[i], b[FieldOrder[i]])}

FirstInvalid(v, b) ==
    FieldOrder[CHOOSE i \in InvalidFields(v, b) : \A j \in InvalidFields(v, b) : i <= j]

\* C4: validateBody is total: whatever JSON value each field holds, it
\* returns {ok: true} or {ok: false, field} and does not throw, so a
\* submission with an invalid field is answered 400 and never 500.
C4_ValidateBodyTotal ==
    vout.run =>
        /\ vout.result # Threw
        /\ InvalidFields(variant, vin) # {} =>
              /\ Len(vout.entry.responses) = 1
              /\ vout.entry.responses[1].status = 400

\* C5: validateBody names the earliest invalid field in the order name,
\* email, phone, interest, message, and returns {ok: true} only when no
\* field is invalid.
C5_FirstFailingField ==
    vout.run =>
        IF InvalidFields(variant, vin) = {}
        THEN vout.result = Accepted
        ELSE /\ Rejected(vout.result)
             /\ vout.result.field = FirstInvalid(variant, vin)

\* The order of C5 on the submissions whose present fields are all strings
\* (or falsy), where validateBody does return.
FirstFailingFieldOnStrings ==
    (vout.run /\ \A i \in DOMAIN FieldOrder :
                    IsString(vin[FieldOrder[i]]) \/ Falsy(vin[FieldOrder[i]])) =>
        IF InvalidFields(variant, vin) = {}
        THEN vout.result = Accepted
        ELSE /\ Rejected(vout.result)
             /\ vout.result.field = FirstInvalid(variant, vin)

\* The sends a variant makes for a request that succeeds.
SendsNeeded(v) == IF HasAutoReply(v) THEN 2 ELSE 1

\* C6: a 200 {ok: true} is written only when every send of the request has
\* resolved: both sends in the auto-reply variants, the one notification in
\* the others; never with a failed or pending send.
C6_SuccessOnlyAfterAllSends ==
    \A r \in Requests :
        \A k \in DOMAIN responses[r] :
            responses[r][k].status = 200 =>
                /\ Len(sends[r]) = SendsNeeded(variant)
                /\ \A i \in DOMAIN sends[r] : sends[r][i].status = "ok"

C6_Witness ==
    \E r \in Requests :
        /\ variant = "api"
        /\ Len(responses[r]) = 1
        /\ responses[r][1].status = 200
        /\ Len(sends[r]) = 2

\* A request whose notification was sent and whose auto-reply failed.
AutoReplyFailed(r) == Len(sends[r]) = 2 /\ Failed(sends[r][2])

\* C7: when the notification succeeds and the auto-reply fails, the request
\* is answered 500 and nothing else, and the notification stays sent: no
\* step changes or removes a send that has succeeded.
C7_NoRollback ==
    /\ [](\A r \in Requests :
            AutoReplyFailed(r) =>
                /\ sends[r][1].kind = "notification"
                /\ sends[r][1].status = "ok"
                /\ pc[r] = "done"
                /\ responses[r] = <<ServerError(variant)>>)
    /\ [][\A r \in Requests : \A i \in DOMAIN sends[r] :
            sends[r][i].status = "ok" =>
                (i \in DOMAIN sends'[r] /\ sends'[r][i] = sends[r][i])]_vars

C7_Witness ==
    \E r \in Requests :
        /\ AutoReplyFailed(r)
        /\ sends[r][1].status = "ok"
        /\ responses[r][1].status = 500

\* C8: no retries: a request makes at most one notification call and at most
\* one auto-reply call (none in the variants without auto-reply), and a
\* failed send ends the request with exactly one 500.
C8_NoRetries ==
    \A r \in Requests :
        /\ SendCount(r, "notification") <= 1
        /\ SendCount(r, "autoReply") <= (IF HasAutoReply(variant) THEN 1 ELSE 0)
        /\ Len(sends[r]) = SendCount(r, "notification") + SendCount(r, "autoReply")
        /\ (\E i \in DOMAIN sends[r] : Failed(sends[r][i])) =>
              /\ pc[r] = "done"
              /\ Failed(sends[r][Len(sends[r])])
              /\ Len(responses[r]) = 1
              /\ responses[r][1].status = 500

C8_Witness ==
    \E r \in Requests :
        /\ pc[r] = "done"
        /\ Len(sends[r]) = 1
        /\ sends[r][1].status = "ETIMEDOUT"
        /\ responses[r][1].status = 500

\* C9: a request is answered exactly once, with 400, 200 or 500: the handler
\* never writes a second response and never finishes without one, also when
\* an exception is thrown while the messages are built or sent.
C9_ExactlyOneResponse ==
    \A r \in Requests :
        /\ Len(responses[r]) <= 1
        /\ pc[r] = "done" =>
              /\ Len(responses[r]) = 1
              /\ responses[r][1].status \in {400, 200, 500}
        /\ pc[r] # "done" => responses[r] = <<>>

C9_Witness ==
    \E r \in Requests :
        /\ pc[r] = "done"
        /\ validateBody(variant, body[r]) = Accepted
        /\ BuildThrows(variant, body[r])
        /\ responses[r] = <<ServerError(variant)>>

\* C10: every sendMail call is bounded by the configured timeout of about
\* 10 seconds, for every transport the program constructs in every variant:
\* no send is still pending once the period has passed.
C10_EverySendBounded ==
    \A r \in Requests : Pending(r) => ~overdue[r]

\* Where the timeout options are set (the production branch of "api" and
\* "part_001") no send outlives the period.
BoundedWithTimeouts ==
    HasTimeouts(transporter) => \A r \in Requests : ~overdue[r]


\* C11: the server listens only after initMailer resolved; when it rejects
\* (no credentials in "contacts", verify() or createTestAccount() failing)
\* app.listen is never called and the process exits with code 1, so no POST
\* handler runs while transporter is unset.
C11_ListenOnlyAfterInit ==
    /\ [](/\ main = "listening" => (transporter # NoTransporter /\ exitCode = <<>>)
          /\ \A r \in Requests :
                Arrived(r) => (main = "listening" /\ transporter # NoTransporter)
          /\ main = "exited" <=> exitCode = <<1>>)
    /\ [][(main' = "listening" /\ main # "listening") => main = "resolved"]_vars
    /\ [][(main \in {"rejected", "exited"}) => (main' \in {"rejected", "exited"})]_vars

C11_Witness ==
    /\ variant = "contacts"
    /\ ~HasCredentials(variant, env)
    /\ transporter = NoTransporter
    /\ main = "exited"
    /\ exitCode = <<1>>
    /\ \A r \in Requests : ~Arrived(r)


-----------------------------------------------------------------------------
(* The auto-reply on its own: one accepted submission, its auto-reply built *)
(* once.                                                                    *)

LanguageValues ==
    { Undefined, Null, Str(<<>>), Str(<<"a", "z">>), Str(<<"r", "u">>),
      Str(<<"e", "n">>), Str(<<"A", "Z">>), Str(<<"r", "u", " ">>),
      Str(<<" ", "a", "z">>), Num(7), Bool(TRUE), Arr }

AutoReplyInputs ==
    { Submission(Str(n), Str(GoodEmail), Str(GoodPhone), Str(i), Str(m), l) :
        n \in {Ada, Al, <<"r", "u">>},
        i \in {GroupLessons, <<"a", "z">>},
        m \in {CallMe, <<"r", "u">>},
        l \in LanguageValues }

InitAutoReply ==
    /\ variant \in {"api", "part_001"}
    /\ env = Env(SmtpUser, Secret, Host, Admin)
    /\ main = "start"
    /\ transporter = NoTransporter
    /\ isTestAccount = FALSE
    /\ pc = [r \in Requests |-> "idle"]
    /\ body = [r \in Requests |-> NoBody]
    /\ sends = [r \in Requests |-> <<>>]
    /\ responses = [r \in Requests |-> <<>>]
    /\ overdue = [r \in Requests |-> FALSE]
    /\ vin \in AutoReplyInputs
    /\ vout = NotRun
    /\ exitCode = <<>>
    /\ info = <<>>

BuildAutoReply ==
    /\ ~vout.run
    /\ vout' = [run |-> TRUE, reply |-> AutoReply(variant, vin)]
    /\ UNCHANGED <<variant, env, main, transporter, isTestAccount, pc, body,
                   sends, responses, overdue, vin, exitCode, info>>

NextAutoReply == BuildAutoReply

SpecAutoReply == InitAutoReply /\ [][NextAutoReply]_vars

\* C12: in part_001 the auto-reply template is chosen by exact match on
\* language alone: "az" gives the Azerbaijani template and subject, "ru" the
\* Russian ones, and any other value ("en", "AZ", "ru ", a non-string) or no
\* value gives the English template with subject "Thank you for contacting
\* IMEC!".
C12_LanguageExactMatch ==
    (vout.run /\ variant = "part_001") =>
        LET l == vin.language
            t == IF IsString(l) /\ l.v = <<"a", "z">> THEN "az"
                 ELSE IF IsString(l) /\ l.v = <<"r", "u">> THEN "ru"
                 ELSE "en"
        IN /\ vout.reply.template = t
           /\ vout.reply.subject = AutoReplySubject(t)
           /\ t = "en" => vout.reply.subject = <<"Thank you for contacting IMEC!">>
           /\ vout.reply.to = vin.email.v

C12_Witness ==
    /\ vout.run
    /\ variant = "part_001"
    /\ vin.language = Str(<<"A", "Z">>)
    /\ vin.interest = Str(<<"a", "z">>)
    /\ vout.reply.template = "en"


\* C13: the 500 body is a fixed constant: whatever the error caught, the
\* send that failed and the submission, every failed request in the process
\* gets the same body, and it carries nothing but ok, error and message.
C13_GenericServerError ==
    \A r \in Requests : \A k \in DOMAIN responses[r] :
        responses[r][k].status = 500 =>
            /\ responses[r][k] = ServerError(variant)
            /\ DOMAIN responses[r][k] \subseteq {"status", "ok", "error", "message"}
            /\ responses[r][k].error \notin TransportErrors \cup {"ETIMEDOUT", "TypeError"}
            /\ \A q \in Requests : \A j \in DOMAIN responses[q] :
                  responses[q][j].status = 500 => responses[q][j] = responses[r][k]

C13_Witness ==
    /\ Len(sends[1]) = 1 /\ sends[1][1].status = "ECONNECTION"
    /\ Len(sends[2]) = 2 /\ sends[2][2].status = "EAUTH"
    /\ body[1] # body[2]
    /\ Len(responses[1]) = 1 /\ responses[1][1].status = 500
    /\ responses[2] = responses[1]

\* C14: a 200 body carries a preview URL only when the transport is the
\* Ethereal one (isTestAccount true); with the production transport
\* previewUrl and autoReplyPreviewUrl are null.  The mailer mode GET /api/info
\* reports is "test" exactly when the Ethereal branch of initMailer was taken.
C14_PreviewOnlyInTestMode ==
    /\ main = "listening" => (isTestAccount <=> transporter.kind = "ethereal")
    /\ \A r \in Requests : \A k \in DOMAIN responses[r] :
          responses[r][k].status = 200 =>
            \A f \in {"previewUrl", "autoReplyPreviewUrl"} \cap DOMAIN responses[r][k] :
                /\ responses[r][k][f] # Null =>
                      (isTestAccount /\ transporter.kind = "ethereal")
                /\ transporter.kind = "smtp" => responses[r][k][f] = Null
    /\ info # <<>> =>
          info[1].mailer = (IF transporter.kind = "ethereal" THEN "test" ELSE "production")

C14_Witness ==
    /\ variant = "part_001"
    /\ transporter.kind = "smtp"
    /\ info # <<>> /\ info[1].mailer = "production"
    /\ \E r \in Requests :
          /\ Len(responses[r]) = 1
          /\ responses[r][1].status = 200
          /\ responses[r][1].previewUrl = Null
          /\ responses[r][1].autoReplyPreviewUrl = Null

\* C15: every 400 body has field equal to the field validateBody returned
\* and message equal to the reason validateBody returned, in every variant.
C15_BadRequestFieldAndReason ==
    (vout.run /\ Rejected(vout.result)) =>
        /\ Len(vout.entry.responses) = 1
        /\ vout.entry.responses[1].status = 400
        /\ vout.entry.responses[1].field = vout.result.field
        /\ "message" \in DOMAIN vout.result
        /\ "message" \in DOMAIN vout.entry.responses[1]
        /\ vout.entry.responses[1].message = vout.result.message

\* The 400 body of "api" and "part_001", whose validateBody returns a reason.
BadRequestReasonWhereGiven ==
    (vout.run /\ Rejected(vout.result) /\ variant \in {"api", "part_001"}) =>
        /\ vout.entry.responses[1].status = 400
        /\ vout.entry.responses[1].field = vout.result.field
        /\ vout.entry.responses[1].message = vout.result.message

\* The 400 body names the field in all four variants.
BadRequestField ==
    (vout.run /\ Rejected(vout.result)) =>
        /\ vout.entry.responses[1].status = 400
        /\ vout.entry.responses[1].field = vout.result.field

\* What GET /api/contact says of message: a string of at least 10 characters.
MessageAsAdvertised(x) == IsString(x) /\ Len(Trim(x.v)) >= MinMessageChars

\* C16: POST /api/contact of part_001 requires message to be a string of at
\* least 10 characters, as its GET /api/contact says: a submission whose
\* other fields are valid and whose message is absent, blank or shorter is
\* answered 400 naming message, and no mail is sent for it.
C16_MessageRequired ==
    \A r \in Requests :
        ( /\ variant = "part_001"
          /\ Arrived(r)
          /\ \A i \in 1..4 : ~Invalid(variant, FieldOrder[i], body[r][FieldOrder[i]])
          /\ ~MessageAsAdvertised(body[r].message) ) =>
            /\ sends[r] = <<>>
            /\ Len(responses[r]) = 1
            /\ responses[r][1].status = 400
            /\ responses[r][1].field = "message"

\* What has happened to request r: its submission, where its handler stands
\* and how each of its sends ended.
Own(r) == <<body[r], pc[r], [i \in DOMAIN sends[r] |-> sends[r][i].status]>>

\* C17: once the server listens, no handler writes transporter or
\* isTestAccount: they change only inside initMailer, before any request.  A
\* step of one request leaves every other request as it was, and what a
\* request sent and was answered is determined by its own submission and the
\* outcomes of its own sends.
C17_NoSharedWrites ==
    /\ [][(main = "listening") =>
            (transporter' = transporter /\ isTestAccount' = isTestAccount)]_vars
    /\ [][(transporter' # transporter \/ isTestAccount' # isTestAccount) =>
            (main \in {"start", "createTestAccount"}
             /\ \A r \in Requests : ~Arrived(r))]_vars
    /\ [][\A r \in Requests :
            (pc'[r] # pc[r] \/ sends'[r] # sends[r] \/ responses'[r] # responses[r]) =>
                \A q \in Requests \ {r} :
                    /\ pc'[q] = pc[q] /\ body'[q] = body[q]
                    /\ sends'[q] = sends[q] /\ responses'[q] = responses[q]]_vars
    /\ [](\A r, q \in Requests :
            Own(r) = Own(q) => (sends[r] = sends[q] /\ responses[r] = responses[q]))

C17_Witness ==
    /\ main = "listening"
    /\ transporter = SmtpTransportWithTimeouts
    /\ ~isTestAccount
    /\ info # <<>>
    /\ body[1] = body[2]
    /\ Len(responses[1]) = 1 /\ responses[1][1].status = 200
    /\ Len(responses[2]) = 1 /\ responses[2][1].status = 500
    /\ Len(sends[2]) = 2

====
